---- MODULE Spec2Model ----
(***************************************************************************)
(* Session and exchange management of the AI chatbot relay: the in-memory  *)
(* rate limiter, the session registry and the send/start handlers of       *)
(* src/flask_app.py, with the CLI classification of src/chatbot.py and     *)
(* src/Tag13_Hausaufgabe_Chatbot_COMPLETE_CODE.py.                         *)
(***************************************************************************)
EXTENDS Integers, Sequences, FiniteSets, TLC

VARIABLES
    now,                    \* datetime.now().timestamp(), in whole seconds
    rate_limit_store,       \* flask_app.py:308  kind -> ip -> [timestamps]
    accepted,               \* observer: times of the Allowed answers, per kind and ip
    API_KEY,                \* flask_app.py:22   TRUE when GOOGLE_API_KEY is set
    chats,                  \* the chat objects made by start_chat: ref -> history
    sessions,               \* flask_app.py:30   session_id -> chat, persona, session_name
    active_chat,            \* flask_app.py:26   ref of the implicit current chat, None
    current_persona,        \* flask_app.py:27
    current_session_name,   \* flask_app.py:28
    started,                \* observer: the (session_id, chat) answered by each successful start
    last,                   \* observer: the request served by the last step and its answer
    pc,                     \* position of each request thread in its handler
    loc,                    \* locals of each request thread
    conversations,          \* flask_app.py:41  committed rows of table conversations
    messages,               \* flask_app.py:51  committed rows of table messages
    chatbot                 \* chatbot.py:308-310  the GeminiChatbot object of the CLI

vars == <<now, rate_limit_store, accepted, API_KEY, chats, sessions, active_chat,
          current_persona, current_session_name, started, last, pc, loc,
          conversations, messages, chatbot>>

rateVars == <<now, rate_limit_store, accepted>>
sessVars == <<chats, sessions, active_chat, current_persona, current_session_name, started>>
thrVars == <<pc, loc>>
dbVars == <<conversations, messages>>

-----------------------------------------------------------------------------
(* Bounds of the model *)

MaxTime == 62
MaxSessions == 2
MaxTurns == 4
MaxRequests == 6
MaxConcRequests == 4
MaxSaves == 2

(* The steps by which the clock advances between requests *)
TickSteps == {30, 31}

-----------------------------------------------------------------------------
(* Program constants *)

RATE_LIMIT_WINDOW_SECONDS == 60
RATE_LIMIT_MAX_START == 5
RATE_LIMIT_MAX_SEND == 20

None == "None"

(* active_chat = None: no chat object *)
NoChat == 0

(* Python truthiness of a str | None request field *)
Truthy(v) == v /= None /\ v /= ""

(* The keys of rate_limit_store *)
StoreKinds == {"start", "send"}
(* A kind that is no key of the store, to take the early return of line 328 *)
AllKinds == StoreKinds \cup {"other"}

Clients == {"c1", "c2"}

-----------------------------------------------------------------------------
(* RATE LIMITING  (flask_app.py:300-345) *)

clean_old_timestamps_keep_all(timestamps, window_seconds) == timestamps

clean_old_timestamps_strict(timestamps, window_seconds) ==
    SelectSeq(timestamps, LAMBDA ts : now - ts < window_seconds)

(* _clean_old_timestamps: the timestamps that lie in the window *)
clean_old_timestamps(timestamps, window_seconds) ==
    SelectSeq(timestamps, LAMBDA ts : now - ts <= window_seconds)

rate_limit_of_off_by_one(kind) ==
    IF kind = "start" THEN RATE_LIMIT_MAX_START + 1 ELSE RATE_LIMIT_MAX_SEND + 1

(* lines 335-338 *)
rate_limit_of(kind) ==
    IF kind = "start" THEN RATE_LIMIT_MAX_START ELSE RATE_LIMIT_MAX_SEND

stored_timestamps_shared_by_clients(kind, ip) == rate_limit_store[kind]["c1"]

(* rate_limit_store[kind].get(ip, []) : an ip without an entry reads as [] *)
stored_timestamps(kind, ip) == rate_limit_store[kind][ip]

(* lines 332-333: the local list timestamps *)
rate_timestamps(kind, ip) ==
    clean_old_timestamps(stored_timestamps(kind, ip), RATE_LIMIT_WINDOW_SECONDS)

(* The value check_rate_limit returns *)
rate_allowed(kind, ip) ==
    \/ kind \notin StoreKinds
    \/ Len(rate_timestamps(kind, ip)) < rate_limit_of(kind)

rate_store_after_denied_writes(kind, ip) ==
    IF kind \notin StoreKinds
    THEN rate_limit_store
    ELSE [rate_limit_store EXCEPT ![kind][ip] = Append(rate_timestamps(kind, ip), now)]

rate_store_after_no_purge(kind, ip) ==
    IF kind \notin StoreKinds \/ ~rate_allowed(kind, ip)
    THEN rate_limit_store
    ELSE [rate_limit_store EXCEPT ![kind][ip] = Append(stored_timestamps(kind, ip), now)]

rate_store_after_validated_first(kind, ip) ==
    IF kind \notin StoreKinds \/ ~rate_allowed(kind, ip) \/ ~API_KEY
    THEN rate_limit_store
    ELSE [rate_limit_store EXCEPT ![kind][ip] = Append(rate_timestamps(kind, ip), now)]

(* The store check_rate_limit leaves: written only on the Allowed path *)
rate_store_after(kind, ip) ==
    IF kind \notin StoreKinds \/ ~rate_allowed(kind, ip)
    THEN rate_limit_store
    ELSE [rate_limit_store EXCEPT ![kind][ip] = Append(rate_timestamps(kind, ip), now)]

(* A send window one request short of its limit *)
SendPreload == RATE_LIMIT_MAX_SEND - 1

(* The requests of a client recorded by the limiter since the initial state: *)
(* the handlers serve a client while this is below MaxRequests               *)
requests_recorded(ip) ==
    LET b == Len(rate_limit_store["send"][ip])
    IN  Len(rate_limit_store["start"][ip])
            + (IF b >= SendPreload THEN b - SendPreload ELSE b)

(* Observer of the Allowed answers: it keeps the accept times of the trailing *)
(* window by its own rule, independently of the purge of the code.            *)
InWindow(ts, t) == t - ts <= RATE_LIMIT_WINDOW_SECONDS

accepted_after(kind, ip) ==
    IF kind \in StoreKinds /\ rate_allowed(kind, ip)
    THEN [accepted EXCEPT ![kind][ip] = Append(@, now)]
    ELSE accepted

accepted_at(t) ==
    [k \in StoreKinds |->
        [c \in Clients |-> SelectSeq(accepted[k][c], LAMBDA ts : InWindow(ts, t))]]

RateAnswer(kind, ip) == IF rate_allowed(kind, ip) THEN "Allowed" ELSE "Denied"

(* check_rate_limit(kind, ip), called on its own *)
check_rate_limit(kind, ip) ==
    /\ rate_limit_store' = rate_store_after(kind, ip)
    /\ accepted' = accepted_after(kind, ip)
    /\ last' = [op |-> "check_rate_limit", kind |-> kind, client |-> ip,
                code |-> RateAnswer(kind, ip),
                purged |-> IF kind \in StoreKinds
                           THEN Len(stored_timestamps(kind, ip)) - Len(rate_timestamps(kind, ip))
                           ELSE 0]
    /\ UNCHANGED <<now, API_KEY, chatbot, dbVars, sessVars, thrVars>>

(* The clock advances *)
Tick(d) ==
    /\ now + d <= MaxTime
    /\ now' = now + d
    /\ accepted' = accepted_at(now + d)
    /\ last' = [op |-> "tick"]
    /\ UNCHANGED <<rate_limit_store, API_KEY, chatbot, dbVars, sessVars, thrVars>>

-----------------------------------------------------------------------------
(* PERSONAS, SESSIONS AND THE PROVIDER *)

(* The keys of PERSONAS (flask_app.py:134-172) *)
PersonaKeys == {"1", "2", "3", "4"}

PERSONAS ==
    [k \in PersonaKeys |->
        [name |-> CASE k = "1" -> "Data Analyst Expert"
                    [] k = "2" -> "Creative Storyteller"
                    [] k = "3" -> "Technical Code Assistant"
                    [] k = "4" -> "Business Consultant"]]

(* Request fields tried by the model *)
PersonaInputs == {"1", "2", "9"}
NameInputs == {"Test", ""}
MessageInputs == {"Hi", ""}
ReplyTexts == {"Hello there"}

(* The identifiers str(uuid.uuid4()) can return *)
SessionIds == {"s1", "s2", "s3"}
SessionIdInputs == SessionIds \cup {None}

EmptyMap == [x \in {} |-> None]

(* The identifiers held by a request that has drawn one and not yet stored it *)
ids_in_flight == {loc[t].session_id : t \in {u \in DOMAIN loc : loc[u].op = "start"}}

uuid4_from_count == {<<"s1", "s2", "s3">>[Cardinality(DOMAIN sessions) + 1]}

(* uuid.uuid4(): an identifier that was not returned before *)
uuid4 == SessionIds \ (DOMAIN sessions \cup ids_in_flight)

(* A provider answer: the call raises, or returns candidates[0] with its     *)
(* finish_reason and the text of content.parts[0], NoContent for empty parts *)
NoContent == "NoContent"
FinishReasons == {1, 2, 3, 4, 99}

ProviderResults ==
    {[raises |-> TRUE, fr |-> 0, content |-> NoContent]}
    \cup {[raises |-> FALSE, fr |-> f, content |-> t] : f \in {1, 2}, t \in ReplyTexts}
    \cup {[raises |-> FALSE, fr |-> f, content |-> NoContent] : f \in FinishReasons \ {1}}

UserTurn(text) == [role |-> "user", text |-> text]
ModelTurn(text) == [role |-> "model", text |-> text]

(* The provider completed with an answer it keeps: code 1, or code 2 with content *)
provider_answered(result) ==
    /\ ~result.raises
    /\ \/ result.fr = 1
       \/ result.fr = 2 /\ result.content /= NoContent

(* ChatSession.send_message on a chat with this history: the user turn is     *)
(* committed before the exchange, the reply after it when the exchange ends   *)
(* Success or Truncated.                                                      *)
chat_history_after(history, message, result) ==
    IF provider_answered(result)
    THEN history \o <<UserTurn(message), ModelTurn(result.content)>>
    ELSE Append(history, UserTurn(message))

(* model.start_chat(history=[]) *)
start_chat_history == <<>>

-----------------------------------------------------------------------------
(* RESPONSES  (flask_app.py:662-672 error_response, and the jsonify payloads) *)

Response(status, code, message, finish_reason, warning, session_id) ==
    [status |-> status, code |-> code, message |-> message,
     finish_reason |-> finish_reason, warning |-> warning, session_id |-> session_id]

error_response(code, message) == Response("error", code, message, None, None, None)

(* lines 352-356 and 408-412: the 429 answer *)
rate_limited_response == Response("error", "rate_limited", None, None, None, None)

-----------------------------------------------------------------------------
(* /api/chat/start  (flask_app.py:348-402) *)

start_validation_name_first(persona_key, session_name) ==
    IF ~API_KEY THEN "MISSING_API_KEY"
    ELSE IF ~Truthy(session_name) THEN "MISSING_SESSION_NAME"
    ELSE IF persona_key \notin PersonaKeys THEN "INVALID_PERSONA"
    ELSE None

(* lines 360-368: the first check that fails, None when all pass *)
start_validation(persona_key, session_name) ==
    IF ~API_KEY THEN "MISSING_API_KEY"
    ELSE IF persona_key \notin PersonaKeys THEN "INVALID_PERSONA"
    ELSE IF ~Truthy(session_name) THEN "MISSING_SESSION_NAME"
    ELSE None

registry_put_first_persona(reg, session_id, chat, persona_key, session_name) ==
    [id \in DOMAIN reg \cup {session_id} |->
        IF id = session_id
        THEN [chat |-> chat, persona |-> "1", session_name |-> session_name]
        ELSE reg[id]]

registry_put_replaces(reg, session_id, chat, persona_key, session_name) ==
    [id \in {session_id} |->
        [chat |-> chat, persona |-> persona_key, session_name |-> session_name]]

registry_put_renames_all(reg, session_id, chat, persona_key, session_name) ==
    [id \in DOMAIN reg \cup {session_id} |->
        IF id = session_id
        THEN [chat |-> chat, persona |-> persona_key, session_name |-> session_name]
        ELSE [reg[id] EXCEPT !.session_name = session_name]]

(* lines 383-387: sessions[session_id] = {...} *)
registry_put(reg, session_id, chat, persona_key, session_name) ==
    [id \in DOMAIN reg \cup {session_id} |->
        IF id = session_id
        THEN [chat |-> chat, persona |-> persona_key, session_name |-> session_name]
        ELSE reg[id]]

(* lines 392-399 *)
start_success_response(persona_key, session_name, session_id) ==
    Response("success", None, PERSONAS[persona_key].name, None, None, session_id)

start_response_construct_unchecked(allowed, persona_key, session_name, construct_ok, session_id) ==
    IF ~allowed THEN rate_limited_response
    ELSE IF start_validation(persona_key, session_name) /= None
    THEN error_response(start_validation(persona_key, session_name), None)
    ELSE start_success_response(persona_key, session_name, session_id)

(* The answer of a start request *)
start_response(allowed, persona_key, session_name, construct_ok, session_id) ==
    IF ~allowed THEN rate_limited_response
    ELSE IF start_validation(persona_key, session_name) /= None
    THEN error_response(start_validation(persona_key, session_name), None)
    ELSE IF ~construct_ok THEN error_response("START_EXCEPTION", None)
    ELSE start_success_response(persona_key, session_name, session_id)

(* api_chat_start, served without interruption.  construct_ok: building the  *)
(* model and the chat (lines 371-381) raises nothing; session_id: uuid4().   *)
api_chat_start(ip, persona_key, session_name, construct_ok, session_id) ==
    LET allowed == rate_allowed("start", ip)
        resp == start_response(allowed, persona_key, session_name, construct_ok, session_id)
        created == resp.status = "success"
        chat_obj == Len(chats) + 1
    IN  /\ requests_recorded(ip) < MaxRequests
        /\ Len(chats) < MaxSessions
        /\ session_id \in uuid4
        /\ rate_limit_store' = rate_store_after("start", ip)
        /\ accepted' = accepted_after("start", ip)
        /\ chats' = IF created THEN Append(chats, start_chat_history) ELSE chats
        /\ sessions' = IF created
                       THEN registry_put(sessions, session_id, chat_obj, persona_key, session_name)
                       ELSE sessions
        /\ active_chat' = IF created THEN chat_obj ELSE active_chat
        /\ current_persona' = IF created THEN persona_key ELSE current_persona
        /\ current_session_name' = IF created THEN session_name ELSE current_session_name
        /\ started' = IF created
                      THEN Append(started, [session_id |-> session_id, chat |-> chat_obj])
                      ELSE started
        /\ last' = [op |-> "start", resp |-> resp, client |-> ip,
                    persona_key |-> persona_key, session_name |-> session_name,
                    raised |-> allowed /\ start_validation(persona_key, session_name) = None
                               /\ ~construct_ok]
        /\ UNCHANGED <<now, API_KEY, chatbot, dbVars, thrVars>>

-----------------------------------------------------------------------------
(* /api/chat/send  (flask_app.py:404-447) *)

send_resolution_active_fallback(message, session_id) ==
    IF ~Truthy(message) THEN [code |-> "MISSING_MESSAGE", chat |-> NoChat]
    ELSE IF Truthy(session_id) /\ session_id \in DOMAIN sessions
    THEN [code |-> None, chat |-> sessions[session_id].chat]
    ELSE IF active_chat = NoChat THEN [code |-> "NO_ACTIVE_CHAT", chat |-> NoChat]
    ELSE [code |-> None, chat |-> active_chat]

send_resolution_session_first(message, session_id) ==
    IF Truthy(session_id) /\ session_id \notin DOMAIN sessions
    THEN [code |-> "UNKNOWN_SESSION", chat |-> NoChat]
    ELSE IF ~Truthy(message) THEN [code |-> "MISSING_MESSAGE", chat |-> NoChat]
    ELSE IF Truthy(session_id) THEN [code |-> None, chat |-> sessions[session_id].chat]
    ELSE IF active_chat = NoChat THEN [code |-> "NO_ACTIVE_CHAT", chat |-> NoChat]
    ELSE [code |-> None, chat |-> active_chat]

send_resolution_first_session(message, session_id) ==
    IF ~Truthy(message) THEN [code |-> "MISSING_MESSAGE", chat |-> NoChat]
    ELSE IF Truthy(session_id)
    THEN IF session_id \notin DOMAIN sessions
         THEN [code |-> "UNKNOWN_SESSION", chat |-> NoChat]
         ELSE [code |-> None, chat |-> sessions[session_id].chat]
    ELSE IF active_chat = NoChat THEN [code |-> "NO_ACTIVE_CHAT", chat |-> NoChat]
    ELSE [code |-> None, chat |-> 1]

(* lines 419-430: the error that ends the request before the provider call,  *)
(* or the chat the message goes to                                           *)
send_resolution(message, session_id) ==
    IF ~Truthy(message) THEN [code |-> "MISSING_MESSAGE", chat |-> NoChat]
    ELSE IF Truthy(session_id)
    THEN IF session_id \notin DOMAIN sessions
         THEN [code |-> "UNKNOWN_SESSION", chat |-> NoChat]
         ELSE [code |-> None, chat |-> sessions[session_id].chat]
    ELSE IF active_chat = NoChat THEN [code |-> "NO_ACTIVE_CHAT", chat |-> NoChat]
    ELSE [code |-> None, chat |-> active_chat]

classify_send_else_success(result, session_id) ==
    IF result.fr = 1 \/ result.fr \notin {2, 3, 4}
    THEN Response("success", None, result.content, "STOP", None, session_id)
    ELSE IF result.fr = 2
    THEN Response("success", None,
                  IF result.content /= NoContent THEN result.content ELSE "",
                  "MAX_TOKENS", "Antwort gekuerzt", session_id)
    ELSE IF result.fr = 3 THEN error_response("SAFETY_BLOCK", None)
    ELSE error_response("RECITATION_BLOCK", None)

(* lines 432-444: the answer for the finish_reason of candidates[0] *)
classify_send(result, session_id) ==
    IF result.fr = 1
    THEN Response("success", None, result.content, "STOP", None, session_id)
    ELSE IF result.fr = 2
    THEN Response("success", None,
                  IF result.content /= NoContent THEN result.content ELSE "",
                  "MAX_TOKENS", "Antwort gekuerzt", session_id)
    ELSE IF result.fr = 3 THEN error_response("SAFETY_BLOCK", None)
    ELSE IF result.fr = 4 THEN error_response("RECITATION_BLOCK", None)
    ELSE error_response("UNKNOWN_FINISH_REASON", ToString(result.fr))

exchange_response_raise_uncaught(result, session_id) == classify_send(result, session_id)

(* lines 431-447: the answer once the provider was called *)
exchange_response(result, session_id) ==
    IF result.raises THEN error_response("SEND_EXCEPTION", None)
    ELSE classify_send(result, session_id)

chats_after_send_twice(chat_ref, message, result) ==
    [chats EXCEPT ![chat_ref] =
        chat_history_after(chat_history_after(@, message, result), message, result)]

chats_after_send_to_newest(chat_ref, message, result) ==
    [chats EXCEPT ![Len(chats)] = chat_history_after(@, message, result)]

chats_after_send_resets(chat_ref, message, result) ==
    [chats EXCEPT ![chat_ref] = chat_history_after(<<>>, message, result)]

chats_after_send_to_all(chat_ref, message, result) ==
    [c \in DOMAIN chats |-> chat_history_after(chats[c], message, result)]

chats_after_send_retry_on_failure(chat_ref, message, result) ==
    [chats EXCEPT ![chat_ref] =
        IF result.raises
        THEN chat_history_after(chat_history_after(@, message, result), message, result)
        ELSE chat_history_after(@, message, result)]

(* line 431: chat_ref.send_message(message), once, on the resolved chat *)
chats_after_send(chat_ref, message, result) ==
    [chats EXCEPT ![chat_ref] = chat_history_after(@, message, result)]

NoResult == [raises |-> FALSE, fr |-> 0, content |-> None]

(* api_chat_send, served without interruption; result: what the provider does *)
api_chat_send(ip, message, session_id, result) ==
    LET allowed == rate_allowed("send", ip)
        res == send_resolution(message, session_id)
        called == allowed /\ res.code = None
        resp == IF ~allowed THEN rate_limited_response
                ELSE IF res.code /= None THEN error_response(res.code, None)
                ELSE exchange_response(result, session_id)
    IN  /\ requests_recorded(ip) < MaxRequests
        /\ called => Len(chats[res.chat]) + 2 <= MaxTurns
        /\ rate_limit_store' = rate_store_after("send", ip)
        /\ accepted' = accepted_after("send", ip)
        /\ chats' = IF called THEN chats_after_send(res.chat, message, result) ELSE chats
        /\ last' = [op |-> "send", resp |-> resp, client |-> ip,
                    message |-> message, session_id |-> session_id,
                    calls |-> IF called THEN 1 ELSE 0,
                    chat |-> IF called THEN res.chat ELSE NoChat,
                    result |-> IF called THEN result ELSE NoResult]
        /\ UNCHANGED <<now, API_KEY, chatbot, dbVars, sessions, active_chat, current_persona,
                       current_session_name, started, thrVars>>

-----------------------------------------------------------------------------
(* /api/chat  (flask_app.py:571-649): the combined router *)

(* lines 581, 620, 623: the branch the request fields select *)
router_branch(persona_key, session_name, incoming_message, session_id) ==
    IF Truthy(persona_key) /\ Truthy(session_name) /\ Truthy(incoming_message)
    THEN "start+send"
    ELSE IF Truthy(persona_key) /\ Truthy(session_name) THEN "start"
    ELSE IF /\ Truthy(incoming_message)
            /\ Truthy(session_id) \/ (~Truthy(persona_key) /\ ~Truthy(session_name))
    THEN "send"
    ELSE "invalid"

(* lines 582-585: the persona, then the API key *)
router_start_validation(persona_key) ==
    IF persona_key \notin PersonaKeys THEN "INVALID_PERSONA"
    ELSE IF ~API_KEY THEN "MISSING_API_KEY"
    ELSE None

(* lines 624-631: the chat a message of the send branch goes to *)
router_send_resolution(session_id) ==
    IF Truthy(session_id)
    THEN IF session_id \notin DOMAIN sessions
         THEN [code |-> "UNKNOWN_SESSION", chat |-> NoChat]
         ELSE [code |-> None, chat |-> sessions[session_id].chat]
    ELSE IF active_chat = NoChat THEN [code |-> "NO_ACTIVE_CHAT", chat |-> NoChat]
    ELSE [code |-> None, chat |-> active_chat]

(* lines 621 and 656-659: start_chat is not a name of the module, the call   *)
(* raises NameError and the 500 handler answers                              *)
internal_error_response == Response("error", None, "Interner Server Error", None, None, None)

(* lines 586-619: the answer of the start+send branch once validated *)
router_start_send_response(construct_ok, new_session_id, result) ==
    IF ~construct_ok \/ result.raises THEN error_response("START_SEND_EXCEPTION", None)
    ELSE classify_send(result, new_session_id)

(* lines 632-647: the answer of the send branch once the chat is resolved *)
router_send_response(session_id, result) ==
    IF result.raises THEN error_response("SEND_EXCEPTION", None)
    ELSE classify_send(result, session_id)

router_session_created_when_answered(branch, val, construct_ok, result) ==
    branch = "start+send" /\ val = None /\ construct_ok /\ provider_answered(result)

(* lines 586-603: the start+send branch registers the session and makes it   *)
(* current once the model and the chat are built, before line 604 sends      *)
router_session_created(branch, val, construct_ok, result) ==
    branch = "start+send" /\ val = None /\ construct_ok

(* chat_router, served without interruption.  construct_ok: building the     *)
(* model and the chat (lines 588-598) raises nothing; new_session_id:        *)
(* uuid4(); result: what the provider does.                                  *)
chat_router(ip, persona_key, session_name, incoming_message, session_id, construct_ok, new_session_id, result) ==
    LET branch == router_branch(persona_key, session_name, incoming_message, session_id)
        val == router_start_validation(persona_key)
        res == router_send_resolution(session_id)
        created == router_session_created(branch, val, construct_ok, result)
        chat_obj == Len(chats) + 1
        sent == branch = "send" /\ res.code = None
        called == created \/ sent
        resp == CASE branch = "start+send" ->
                        IF val /= None THEN error_response(val, None)
                        ELSE router_start_send_response(construct_ok, new_session_id, result)
                  [] branch = "start" -> internal_error_response
                  [] branch = "send" ->
                        IF res.code /= None THEN error_response(res.code, None)
                        ELSE router_send_response(session_id, result)
                  [] OTHER -> error_response("INVALID_CHAT_BODY", None)
    IN  /\ created => Len(chats) < MaxSessions
        /\ sent => Len(chats[res.chat]) + 2 <= MaxTurns
        /\ new_session_id \in uuid4
        /\ chats' = IF created
                    THEN Append(chats, chat_history_after(start_chat_history,
                                                          incoming_message, result))
                    ELSE IF sent THEN chats_after_send(res.chat, incoming_message, result)
                    ELSE chats
        /\ sessions' = IF created
                       THEN registry_put(sessions, new_session_id, chat_obj,
                                         persona_key, session_name)
                       ELSE sessions
        /\ active_chat' = IF created THEN chat_obj ELSE active_chat
        /\ current_persona' = IF created THEN persona_key ELSE current_persona
        /\ current_session_name' = IF created THEN session_name ELSE current_session_name
        /\ started' = IF created
                      THEN Append(started, [session_id |-> new_session_id, chat |-> chat_obj])
                      ELSE started
        /\ last' = [op |-> "chat", resp |-> resp, client |-> ip, branch |-> branch,
                    persona_key |-> persona_key, session_name |-> session_name,
                    message |-> incoming_message, session_id |-> session_id,
                    created |-> created, constructed |-> construct_ok,
                    calls |-> IF called THEN 1 ELSE 0,
                    chat |-> IF created THEN chat_obj ELSE IF sent THEN res.chat ELSE NoChat,
                    result |-> IF called THEN result ELSE NoResult]
        /\ UNCHANGED <<rateVars, API_KEY, chatbot, dbVars, thrVars>>

-----------------------------------------------------------------------------
(* /api/chat/session/<session_id>/history  (flask_app.py:532-546) *)

session_history_response(session_id) ==
    IF session_id \notin DOMAIN sessions
    THEN [status |-> "error", code |-> "UNKNOWN_SESSION", session_id |-> None,
          history |-> <<>>, persona |-> None, session_name |-> None]
    ELSE [status |-> "success", code |-> None, session_id |-> session_id,
          history |-> chats[sessions[session_id].chat],
          persona |-> PERSONAS[sessions[session_id].persona].name,
          session_name |-> sessions[session_id].session_name]

session_history(session_id) ==
    /\ last' = [op |-> "history", session_id |-> session_id,
                resp |-> session_history_response(session_id)]
    /\ UNCHANGED <<rateVars, API_KEY, chatbot, dbVars, sessVars, thrVars>>

-----------------------------------------------------------------------------
(* PERSISTENCE  (flask_app.py:36-127 the tables, 463-522 the handlers) *)

ConversationRow(id, session_name, persona, timestamp) ==
    [id |-> id, session_name |-> session_name, persona |-> persona,
     created_at |-> timestamp, updated_at |-> timestamp]

MessageRow(id, conversation_id, role, content, timestamp) ==
    [id |-> id, conversation_id |-> conversation_id, role |-> role,
     content |-> content, timestamp |-> timestamp]

lastrowid_reused(table) == IF table = <<>> THEN 1 ELSE Len(table)

(* cursor.lastrowid after the INSERT: INTEGER PRIMARY KEY AUTOINCREMENT gives *)
(* the row one more than the largest id the table ever held                   *)
lastrowid(table) == Len(table) + 1

message_rows_without_last(table, conversation_id, history, timestamp) ==
    IF Len(history) <= 1 THEN <<>>
    ELSE [i \in 1..(Len(history) - 1) |->
            MessageRow(Len(table) + i, conversation_id,
                       history[i].role, history[i].text, timestamp)]

(* lines 79-86: one INSERT per message of history, in the order of history *)
message_rows(table, conversation_id, history, timestamp) ==
    IF history = <<>> THEN <<>>
    ELSE [i \in 1..Len(history) |->
            MessageRow(Len(table) + i, conversation_id,
                       history[i].role, history[i].text, timestamp)]

(* The rows of a table in the order of a scan: ascending rowid *)
rows_where_conversation(table, conversation_id) ==
    SelectSeq(table, LAMBDA row : row.conversation_id = conversation_id)

remove_at(rows, i) == [j \in 1..(Len(rows) - 1) |-> IF j < i THEN rows[j] ELSE rows[j + 1]]

RECURSIVE order_by_timestamp_ties_reversed(_)
order_by_timestamp_ties_reversed(rows) ==
    IF rows = <<>> THEN <<>>
    ELSE LET i == CHOOSE k \in 1..Len(rows) :
                    \A j \in 1..Len(rows) :
                        \/ rows[k].timestamp < rows[j].timestamp
                        \/ rows[k].timestamp = rows[j].timestamp /\ k >= j
         IN  <<rows[i]>> \o order_by_timestamp_ties_reversed(remove_at(rows, i))

(* ORDER BY timestamp ASC: the sorter keeps rows of equal timestamp in the   *)
(* order of the scan                                                         *)
RECURSIVE order_by_timestamp(_)
order_by_timestamp(rows) ==
    IF rows = <<>> THEN <<>>
    ELSE LET i == CHOOSE k \in 1..Len(rows) :
                    \A j \in 1..Len(rows) :
                        \/ rows[k].timestamp < rows[j].timestamp
                        \/ rows[k].timestamp = rows[j].timestamp /\ k <= j
         IN  <<rows[i]>> \o order_by_timestamp(remove_at(rows, i))

(* ORDER BY updated_at DESC, rows of equal updated_at in the order of the scan *)
RECURSIVE order_by_updated_at_desc(_)
order_by_updated_at_desc(rows) ==
    IF rows = <<>> THEN <<>>
    ELSE LET i == CHOOSE k \in 1..Len(rows) :
                    \A j \in 1..Len(rows) :
                        \/ rows[k].updated_at > rows[j].updated_at
                        \/ rows[k].updated_at = rows[j].updated_at /\ k <= j
         IN  <<rows[i]>> \o order_by_updated_at_desc(remove_at(rows, i))

(* lines 112-127: SELECT role, content, timestamp ... WHERE conversation_id = ? *)
load_conversation_history(conversation_id) ==
    LET rows == order_by_timestamp(rows_where_conversation(messages, conversation_id))
    IN  IF rows = <<>> THEN <<>>
        ELSE [i \in 1..Len(rows) |->
                [role |-> rows[i].role, content |-> rows[i].content,
                 timestamp |-> rows[i].timestamp]]

(* lines 95-109 *)
load_conversations == order_by_updated_at_desc(conversations)

(* line 468: the test that refuses the save *)
save_refused ==
    \/ active_chat = NoChat
    \/ ~Truthy(current_persona)
    \/ ~Truthy(current_session_name)

(* line 469: the 400 answer, a payload with the key 'error' only *)
save_refused_response == error_response(None, "Kein aktiver Chat zum Speichern")

(* line 485: the 500 answer of a save that raised *)
save_failed_response == error_response(None, "Exception")

(* lines 478-482 *)
save_success_response == Response("success", None, "Chat gespeichert", None, None, None)

NoConversation == 0

(* save_conversation, lines 67-92: the tables once the transaction commits *)
conversations_after_save(session_name, persona, timestamp) ==
    Append(conversations,
           ConversationRow(lastrowid(conversations), session_name, persona, timestamp))

messages_after_save(conversation_id, history, timestamp) ==
    messages \o message_rows(messages, conversation_id, history, timestamp)

(* save_chat, served without interruption.  session_id: a session id the    *)
(* request may carry (the handler does not read the request); db_ok: the    *)
(* database raises nothing.                                                  *)
save_chat(session_id, db_ok) ==
    LET conversation_id == lastrowid(conversations)
        saved == ~save_refused /\ db_ok
    IN  /\ Len(conversations) < MaxSaves
        /\ conversations' =
                IF saved
                THEN conversations_after_save(current_session_name,
                                              PERSONAS[current_persona].name, now)
                ELSE conversations
        /\ messages' =
                IF saved
                THEN messages_after_save(conversation_id, chats[active_chat], now)
                ELSE messages
        /\ last' = [op |-> "save", session_id |-> session_id,
                    resp |-> IF save_refused THEN save_refused_response
                             ELSE IF ~db_ok THEN save_failed_response
                             ELSE save_success_response,
                    chat |-> IF saved THEN active_chat ELSE NoChat,
                    conversation_id |-> IF saved THEN conversation_id ELSE NoConversation]
        /\ UNCHANGED <<rateVars, API_KEY, chatbot, sessVars, thrVars>>

(* get_conversation_detail, lines 508-522 *)
get_conversation_detail(conversation_id) ==
    /\ last' = [op |-> "read", conversation_id |-> conversation_id,
                messages |-> load_conversation_history(conversation_id)]
    /\ UNCHANGED <<rateVars, API_KEY, chatbot, sessVars, thrVars, dbVars>>

(* get_conversations, lines 488-506 *)
get_conversations ==
    /\ last' = [op |-> "list", conversations |-> load_conversations]
    /\ UNCHANGED <<rateVars, API_KEY, chatbot, sessVars, thrVars, dbVars>>

-----------------------------------------------------------------------------
(* THE CLI CHATBOT  (chatbot.py:234-483, class GeminiChatbot) *)

(* __init__, lines 308-310; history is self.chat.history, chat counts the   *)
(* chat objects model.start_chat has returned                               *)
chatbot_init ==
    [chat |-> NoChat, current_persona |-> None, session_name |-> None, history |-> <<>>]

(* start_new_chat, lines 313-364.  construct_ok: building the model and the *)
(* chat (lines 345-357) raises nothing.  current_persona and session_name   *)
(* are assigned (lines 336-337) before the model is built.                  *)
start_new_chat(persona_key, session_name, construct_ok) ==
    /\ chatbot.chat < MaxSessions
    /\ chatbot' =
            IF persona_key \notin PersonaKeys THEN chatbot
            ELSE IF ~construct_ok
            THEN [chatbot EXCEPT !.current_persona = persona_key,
                                 !.session_name = session_name]
            ELSE [chat |-> chatbot.chat + 1, current_persona |-> persona_key,
                  session_name |-> session_name, history |-> start_chat_history]
    /\ last' = [op |-> "start_new_chat", persona_key |-> persona_key,
                session_name |-> session_name,
                returned |-> persona_key \in PersonaKeys /\ construct_ok]
    /\ UNCHANGED <<rateVars, API_KEY, sessVars, thrVars, dbVars>>

(* send_message, lines 366-418 *)
send_message(message, result) ==
    /\ Len(chatbot.history) + 2 <= MaxTurns
    /\ chatbot' = IF chatbot.chat = NoChat THEN chatbot
                  ELSE [chatbot EXCEPT !.history = chat_history_after(@, message, result)]
    /\ last' = [op |-> "cli_send", message |-> message,
                calls |-> IF chatbot.chat = NoChat THEN 0 ELSE 1]
    /\ UNCHANGED <<rateVars, API_KEY, sessVars, thrVars, dbVars>>

(* save_current_chat, lines 452-483, with save_conversation, lines 97-154.  *)
(* db_ok: the database raises nothing.                                      *)
save_current_chat(db_ok) ==
    LET conversation_id == lastrowid(conversations)
        saved == chatbot.chat /= NoChat /\ db_ok
    IN  /\ Len(conversations) < MaxSaves
        /\ conversations' =
                IF saved
                THEN conversations_after_save(chatbot.session_name,
                                              PERSONAS[chatbot.current_persona].name, now)
                ELSE conversations
        /\ messages' =
                IF saved
                THEN messages_after_save(conversation_id, chatbot.history, now)
                ELSE messages
        /\ last' = [op |-> "save_current_chat",
                    returned |-> IF saved THEN conversation_id ELSE NoConversation]
        /\ UNCHANGED <<rateVars, API_KEY, sessVars, thrVars, chatbot>>

-----------------------------------------------------------------------------
(* Initial state: the module-level values of flask_app.py:22-30 and 308-311 *)

Threads == {"t1", "t2"}

NoLocals == [op |-> None]

InitFresh ==
    /\ now = 0
    /\ rate_limit_store = [k \in StoreKinds |-> [c \in Clients |-> <<>>]]
    /\ accepted = [k \in StoreKinds |-> [c \in Clients |-> <<>>]]
    /\ API_KEY \in BOOLEAN
    /\ chats = <<>>
    /\ sessions = EmptyMap
    /\ active_chat = NoChat
    /\ current_persona = None
    /\ current_session_name = None
    /\ started = <<>>
    /\ last = [op |-> "init"]
    /\ pc = [t \in Threads |-> "idle"]
    /\ loc = [t \in Threads |-> NoLocals]
    /\ conversations = <<>>
    /\ messages = <<>>
    /\ chatbot = chatbot_init

(* The state after one client sent SendPreload requests without a message   *)
(* to /api/chat/send within one second of the start: each is recorded by    *)
(* the limiter and answered MISSING_MESSAGE, and nothing else changes.      *)
BusyClient == "c1"

InitBusy ==
    /\ now = 0
    /\ rate_limit_store =
            [k \in StoreKinds |-> [c \in Clients |->
                IF k = "send" /\ c = BusyClient THEN [i \in 1..SendPreload |-> 0] ELSE <<>>]]
    /\ accepted = rate_limit_store
    /\ API_KEY \in BOOLEAN
    /\ chats = <<>>
    /\ sessions = EmptyMap
    /\ active_chat = NoChat
    /\ current_persona = None
    /\ current_session_name = None
    /\ started = <<>>
    /\ last = [op |-> "send", resp |-> error_response("MISSING_MESSAGE", None),
               client |-> BusyClient, message |-> "", session_id |-> None,
               calls |-> 0, chat |-> NoChat, result |-> NoResult]
    /\ pc = [t \in Threads |-> "idle"]
    /\ loc = [t \in Threads |-> NoLocals]
    /\ conversations = <<>>
    /\ messages = <<>>
    /\ chatbot = chatbot_init

Init == InitFresh \/ InitBusy

-----------------------------------------------------------------------------
(* The rate limiter on its own: sequential calls at non-decreasing times *)

RateCallers == {<<"start", "c1">>, <<"send", "c2">>, <<"other", "c1">>}

InitRate == InitFresh /\ API_KEY = TRUE

NextRate ==
    \/ \E kc \in RateCallers : check_rate_limit(kc[1], kc[2])
    \/ \E d \in TickSteps : Tick(d)

SpecRate == InitRate /\ [][NextRate]_vars

(* check_rate_limit called for buckets that share a kind or a client.  The   *)
(* second and third bucket take MaxSideCalls calls, the first as many as its *)
(* limit lets through and one more.                                          *)
MaxSideCalls == 2

BucketCallers == {<<"start", "c1">>, <<"start", "c2">>, <<"send", "c1">>}

bucket_call_budget(kind, ip) ==
    IF kind = "start" /\ ip = "c1" THEN RATE_LIMIT_MAX_START + 1 ELSE MaxSideCalls

NextBuckets ==
    \/ \E kc \in BucketCallers :
            /\ Len(stored_timestamps(kc[1], kc[2])) < bucket_call_budget(kc[1], kc[2])
            /\ check_rate_limit(kc[1], kc[2])
    \/ \E d \in TickSteps : Tick(d)

SpecBuckets == InitRate /\ [][NextBuckets]_vars

-----------------------------------------------------------------------------
(* The server serving one request at a time *)

HandlerClients == {"c1"}

Next ==
    \/ \E ip \in HandlerClients, k \in PersonaInputs, n \in NameInputs,
          ok \in BOOLEAN, id \in SessionIds :
            api_chat_start(ip, k, n, ok, id)
    \/ \E ip \in HandlerClients, m \in MessageInputs, id \in SessionIdInputs,
          r \in ProviderResults :
            api_chat_send(ip, m, id, r)

Spec == Init /\ [][Next]_vars

-----------------------------------------------------------------------------
(* Starting, sending, saving and reading back, one request at a time *)

SaveStartInputs == {<<"1", "Test">>, <<"2", "Demo">>}

SaveSendResults ==
    {r \in ProviderResults : ~r.raises /\ (r.fr = 1 \/ (r.fr = 3 /\ r.content = NoContent))}

ConversationIds == 1..MaxSaves

InitSave == InitFresh /\ API_KEY = TRUE

NextSave ==
    \/ \E ip \in HandlerClients, kn \in SaveStartInputs, id \in SessionIds :
            api_chat_start(ip, kn[1], kn[2], TRUE, id)
    \/ \E ip \in HandlerClients, id \in SessionIdInputs, r \in SaveSendResults :
            api_chat_send(ip, "Hi", id, r)
    \/ \E id \in SessionIdInputs, db_ok \in BOOLEAN : save_chat(id, db_ok)
    \/ \E cid \in ConversationIds : get_conversation_detail(cid)
    \/ get_conversations
    \/ \E id \in SessionIds : session_history(id)

SpecSave == InitSave /\ [][NextSave]_vars

-----------------------------------------------------------------------------
(* Start requests served by concurrent threads: a thread can be preempted    *)
(* between any two statements of api_chat_start and check_rate_limit that    *)
(* read or write the module-level state.                                     *)

StartLocals(ip, persona_key, session_name, timestamps) ==
    [op |-> "start", client |-> ip, persona_key |-> persona_key,
     session_name |-> session_name, timestamps |-> timestamps,
     chat |-> NoChat, session_id |-> None]

Respond(t, resp) ==
    /\ last' = [op |-> "start", resp |-> resp]
    /\ pc' = [pc EXCEPT ![t] = "idle"]
    /\ loc' = [loc EXCEPT ![t] = NoLocals]

starts_in_flight == Cardinality({t \in Threads : pc[t] /= "idle"})

(* lines 350-351 with 331-341: the request arrives; check_rate_limit reads   *)
(* the store into its local list and compares it with the limit              *)
StartRateRead(t, ip, persona_key, session_name) ==
    /\ pc[t] = "idle"
    /\ Len(chats) + starts_in_flight < MaxSessions
    /\ requests_recorded(ip) + starts_in_flight < MaxConcRequests
    /\ IF rate_allowed("start", ip)
       THEN /\ pc' = [pc EXCEPT ![t] = "start_rate_write"]
            /\ loc' = [loc EXCEPT ![t] = StartLocals(ip, persona_key, session_name,
                                                    rate_timestamps("start", ip))]
            /\ UNCHANGED last
       ELSE Respond(t, rate_limited_response)
    /\ UNCHANGED <<rateVars, API_KEY, chatbot, dbVars, sessVars>>

(* lines 343-345: timestamps.append(now); the list is stored *)
StartRateWrite(t) ==
    /\ pc[t] = "start_rate_write"
    /\ rate_limit_store' =
            [rate_limit_store EXCEPT !["start"][loc[t].client] = Append(loc[t].timestamps, now)]
    /\ accepted' = [accepted EXCEPT !["start"][loc[t].client] = Append(@, now)]
    /\ pc' = [pc EXCEPT ![t] = "start_create"]
    /\ UNCHANGED <<now, API_KEY, chatbot, dbVars, sessVars, last, loc>>

(* lines 360-382: the checks, the chat object and the identifier *)
StartCreate(t, construct_ok, session_id) ==
    /\ pc[t] = "start_create"
    /\ session_id \in uuid4
    /\ LET resp == start_response(TRUE, loc[t].persona_key, loc[t].session_name,
                                  construct_ok, session_id)
       IN  IF resp.status = "success"
           THEN /\ chats' = Append(chats, start_chat_history)
                /\ loc' = [loc EXCEPT ![t].chat = Len(chats) + 1,
                                      ![t].session_id = session_id]
                /\ pc' = [pc EXCEPT ![t] = "start_insert"]
                /\ UNCHANGED last
           ELSE /\ Respond(t, resp)
                /\ UNCHANGED chats
    /\ UNCHANGED <<rateVars, API_KEY, chatbot, dbVars, sessions, active_chat, current_persona,
                   current_session_name, started>>

(* lines 383-387 *)
StartInsert(t) ==
    /\ pc[t] = "start_insert"
    /\ sessions' = registry_put(sessions, loc[t].session_id, loc[t].chat,
                                loc[t].persona_key, loc[t].session_name)
    /\ pc' = [pc EXCEPT ![t] = "start_active"]
    /\ UNCHANGED <<rateVars, API_KEY, chatbot, dbVars, chats, active_chat, current_persona,
                   current_session_name, started, last, loc>>

(* line 388 *)
StartSetActive(t) ==
    /\ pc[t] = "start_active"
    /\ active_chat' = loc[t].chat
    /\ pc' = [pc EXCEPT ![t] = "start_persona"]
    /\ UNCHANGED <<rateVars, API_KEY, chatbot, dbVars, chats, sessions, current_persona,
                   current_session_name, started, last, loc>>

(* line 389 *)
StartSetPersona(t) ==
    /\ pc[t] = "start_persona"
    /\ current_persona' = loc[t].persona_key
    /\ pc' = [pc EXCEPT ![t] = "start_name"]
    /\ UNCHANGED <<rateVars, API_KEY, chatbot, dbVars, chats, sessions, active_chat,
                   current_session_name, started, last, loc>>

(* lines 390-399: the last assignment and the answer *)
StartSetName(t) ==
    /\ pc[t] = "start_name"
    /\ current_session_name' = loc[t].session_name
    /\ started' = Append(started, [session_id |-> loc[t].session_id, chat |-> loc[t].chat])
    /\ Respond(t, start_success_response(loc[t].persona_key, loc[t].session_name,
                                         loc[t].session_id))
    /\ UNCHANGED <<rateVars, API_KEY, chatbot, dbVars, chats, sessions, active_chat, current_persona>>

(* The (persona_key, session_name) pairs of the concurrent start requests *)
ConcStartInputs == {<<"1", "Test">>, <<"2", "Demo">>, <<"9", "Test">>, <<"1", "">>}

NextConc ==
    \/ \E t \in Threads, ip \in HandlerClients, kn \in ConcStartInputs :
            StartRateRead(t, ip, kn[1], kn[2])
    \/ \E t \in Threads : StartRateWrite(t)
    \/ \E t \in Threads, ok \in BOOLEAN, id \in SessionIds : StartCreate(t, ok, id)
    \/ \E t \in Threads : StartInsert(t)
    \/ \E t \in Threads : StartSetActive(t)
    \/ \E t \in Threads : StartSetPersona(t)
    \/ \E t \in Threads : StartSetName(t)

SpecConc == InitFresh /\ [][NextConc]_vars

-----------------------------------------------------------------------------
(* Save requests served by concurrent threads, with readers.  Each call of   *)
(* save_conversation works on its own connection (line 69): its INSERTs      *)
(* belong to the transaction that conn.commit() (line 88) ends, and a        *)
(* connection dropped before the commit leaves nothing behind.               *)

committed_after_execute_autocommit(table, rows) == table \o rows

(* The committed rows of a table after cursor.execute(INSERT ...) *)
committed_after_execute(table, rows) == table

(* The committed rows of a table after conn.commit() *)
committed_after_commit(table, rows) == table \o rows

SaveLocals(session_name, persona, chat) ==
    [op |-> "save", session_name |-> session_name, persona |-> persona,
     chat |-> chat, conversation_id |-> NoConversation,
     conversation_rows |-> <<>>, message_rows |-> <<>>, i |-> 1]

RespondSave(t, resp, chat, conversation_id) ==
    /\ last' = [op |-> "save", session_id |-> None, resp |-> resp,
                chat |-> chat, conversation_id |-> conversation_id]
    /\ pc' = [pc EXCEPT ![t] = "idle"]
    /\ loc' = [loc EXCEPT ![t] = NoLocals]

(* The threads between save_chat's test and the end of their save *)
saves_in_flight == Cardinality({t \in Threads : pc[t] /= "idle"})

(* The threads whose connection holds the write transaction *)
db_writers == {t \in Threads : pc[t] = "save_insert_message"}

(* lines 468-476: the test, and the arguments of save_conversation *)
SaveBegin(t) ==
    /\ pc[t] = "idle"
    /\ Len(conversations) + saves_in_flight < MaxSaves
    /\ IF save_refused
       THEN RespondSave(t, save_refused_response, NoChat, NoConversation)
       ELSE /\ pc' = [pc EXCEPT ![t] = "save_insert_conversation"]
            /\ loc' = [loc EXCEPT ![t] = SaveLocals(current_session_name,
                                                   PERSONAS[current_persona].name,
                                                   active_chat)]
            /\ UNCHANGED last
    /\ UNCHANGED <<rateVars, API_KEY, chatbot, dbVars, sessVars>>

(* lines 72-77: the first INSERT takes the write lock of the database *)
SaveInsertConversation(t) ==
    /\ pc[t] = "save_insert_conversation"
    /\ db_writers = {}
    /\ LET row == ConversationRow(lastrowid(conversations), loc[t].session_name,
                                  loc[t].persona, now)
       IN  /\ conversations' = committed_after_execute(conversations, <<row>>)
           /\ loc' = [loc EXCEPT ![t].conversation_id = row.id,
                                 ![t].conversation_rows = <<row>>]
    /\ pc' = [pc EXCEPT ![t] = "save_insert_message"]
    /\ UNCHANGED <<rateVars, API_KEY, chatbot, messages, sessVars, last>>

(* lines 72-75 while another connection holds the write lock: the INSERT    *)
(* raises "database is locked" and save_chat answers 500 (lines 484-485)    *)
SaveLocked(t) ==
    /\ pc[t] = "save_insert_conversation"
    /\ db_writers /= {}
    /\ RespondSave(t, save_failed_response, NoChat, NoConversation)
    /\ UNCHANGED <<rateVars, API_KEY, chatbot, dbVars, sessVars>>

(* lines 79-86: one turn of the loop over the live history *)
SaveInsertMessage(t) ==
    /\ pc[t] = "save_insert_message"
    /\ loc[t].i <= Len(chats[loc[t].chat])
    /\ LET message == chats[loc[t].chat][loc[t].i]
           row == MessageRow(Len(messages) + loc[t].i, loc[t].conversation_id,
                             message.role, message.text, now)
       IN  /\ messages' = committed_after_execute(messages, <<row>>)
           /\ loc' = [loc EXCEPT ![t].message_rows = Append(@, row),
                                 ![t].i = @ + 1]
    /\ UNCHANGED <<rateVars, API_KEY, chatbot, conversations, sessVars, last, pc>>

(* lines 88-91 and 478-482: the loop is over, commit and answer *)
SaveCommit(t) ==
    /\ pc[t] = "save_insert_message"
    /\ loc[t].i > Len(chats[loc[t].chat])
    /\ conversations' = committed_after_commit(conversations, loc[t].conversation_rows)
    /\ messages' = committed_after_commit(messages, loc[t].message_rows)
    /\ RespondSave(t, save_success_response, loc[t].chat, loc[t].conversation_id)
    /\ UNCHANGED <<rateVars, API_KEY, chatbot, sessVars>>

(* An INSERT of the loop or the commit raises: the connection is dropped    *)
(* without a commit and save_chat answers 500 (lines 484-485)               *)
SaveRaise(t) ==
    /\ pc[t] = "save_insert_message"
    /\ RespondSave(t, save_failed_response, NoChat, NoConversation)
    /\ UNCHANGED <<rateVars, API_KEY, chatbot, dbVars, sessVars>>

NextSaveConc ==
    \/ \E ip \in HandlerClients, id \in SessionIds :
            api_chat_start(ip, "1", "Test", TRUE, id)
    \/ \E ip \in HandlerClients, r \in SaveSendResults : api_chat_send(ip, "Hi", None, r)
    \/ \E t \in Threads : SaveBegin(t)
    \/ \E t \in Threads : SaveInsertConversation(t)
    \/ \E t \in Threads : SaveLocked(t)
    \/ \E t \in Threads : SaveInsertMessage(t)
    \/ \E t \in Threads : SaveCommit(t)
    \/ \E t \in Threads : SaveRaise(t)
    \/ \E cid \in ConversationIds : get_conversation_detail(cid)
    \/ get_conversations

SpecSaveConc == InitSave /\ [][NextSaveConc]_vars

-----------------------------------------------------------------------------
(* Send requests served by concurrent threads.  api_chat_send holds no lock *)
(* around chat_ref.send_message (line 431); the exchange of the chat object *)
(* commits the user turn, waits for the provider and then keeps the reply.  *)

SendLocals(ip, message, session_id, chat) ==
    [op |-> "send", client |-> ip, message |-> message, session_id |-> session_id,
     chat |-> chat, user_at |-> 0]

(* The threads inside the exchange of a chat *)
sends_in_flight(chat) ==
    Cardinality({t \in Threads : pc[t] /= "idle" /\ loc[t].chat = chat})

(* lines 406-430: the rate check, the message and the session resolution *)
SendBegin(t, ip, message, session_id) ==
    LET allowed == rate_allowed("send", ip)
        res == send_resolution(message, session_id)
        called == allowed /\ res.code = None
    IN  /\ pc[t] = "idle"
        /\ requests_recorded(ip) < MaxConcRequests
        /\ called => Len(chats[res.chat]) + 2 * (sends_in_flight(res.chat) + 1) <= MaxTurns
        /\ rate_limit_store' = rate_store_after("send", ip)
        /\ accepted' = accepted_after("send", ip)
        /\ IF called
           THEN /\ pc' = [pc EXCEPT ![t] = "send_user_turn"]
                /\ loc' = [loc EXCEPT ![t] = SendLocals(ip, message, session_id, res.chat)]
                /\ UNCHANGED last
           ELSE /\ last' = [op |-> "send", client |-> ip,
                            resp |-> IF ~allowed THEN rate_limited_response
                                     ELSE error_response(res.code, None),
                            message |-> message, session_id |-> session_id,
                            calls |-> 0, chat |-> NoChat, result |-> NoResult,
                            user_at |-> 0, reply_at |-> 0]
                /\ UNCHANGED <<pc, loc>>
        /\ UNCHANGED <<now, API_KEY, chatbot, dbVars, sessVars>>

(* line 431, first half: the chat object commits the user turn *)
SendUserTurn(t) ==
    /\ pc[t] = "send_user_turn"
    /\ chats' = [chats EXCEPT ![loc[t].chat] = Append(@, UserTurn(loc[t].message))]
    /\ loc' = [loc EXCEPT ![t].user_at = Len(chats[loc[t].chat]) + 1]
    /\ pc' = [pc EXCEPT ![t] = "send_wait"]
    /\ UNCHANGED <<rateVars, API_KEY, chatbot, dbVars, sessions, active_chat, current_persona,
                   current_session_name, started, last>>

(* lines 431-447: the provider answers or raises; the chat object keeps the *)
(* reply of an answered exchange; the handler classifies and answers        *)
SendReply(t, result) ==
    LET chat == loc[t].chat
        answered == provider_answered(result)
    IN  /\ pc[t] = "send_wait"
        /\ chats' = IF answered
                    THEN [chats EXCEPT ![chat] = Append(@, ModelTurn(result.content))]
                    ELSE chats
        /\ last' = [op |-> "send", client |-> loc[t].client,
                    resp |-> exchange_response(result, loc[t].session_id),
                    message |-> loc[t].message, session_id |-> loc[t].session_id,
                    calls |-> 1, chat |-> chat, result |-> result,
                    user_at |-> loc[t].user_at,
                    reply_at |-> IF answered THEN Len(chats[chat]) + 1 ELSE 0]
        /\ pc' = [pc EXCEPT ![t] = "idle"]
        /\ loc' = [loc EXCEPT ![t] = NoLocals]
        /\ UNCHANGED <<rateVars, API_KEY, chatbot, dbVars, sessions, active_chat, current_persona,
                       current_session_name, started>>

ConcSendRequests == {<<"Hi", None>>, <<"Hi", "s1">>, <<"", "s1">>, <<"Hi", "s3">>}

NextSendConc ==
    \/ \E ip \in HandlerClients, id \in SessionIds :
            api_chat_start(ip, "1", "Test", TRUE, id)
    \/ \E t \in Threads, ip \in HandlerClients, mi \in ConcSendRequests :
            SendBegin(t, ip, mi[1], mi[2])
    \/ \E t \in Threads : SendUserTurn(t)
    \/ \E t \in Threads, r \in SaveSendResults \cup {rr \in ProviderResults : rr.raises} :
            SendReply(t, r)

SpecSendConc == InitSave /\ [][NextSendConc]_vars

-----------------------------------------------------------------------------
(* The three handlers that create sessions and exchange messages *)

(* persona_key, session_name, message, session_id of the /api/chat requests *)
RouterRequests ==
    {<<"1", "Test", "Hi", None>>, <<"9", "Test", "Hi", None>>,
     <<"2", "Test", None, None>>,
     <<None, None, "Hi", None>>, <<None, None, "Hi", "s1">>, <<None, None, "Hi", "s3">>,
     <<"1", None, "Hi", None>>, <<None, None, None, "s1">>}

RouterResults ==
    {r \in ProviderResults : r.raises \/ (r.fr = 1 /\ r.content /= NoContent)
                                      \/ r.fr \in {3, 99}}

RouterSessionIds == {"s1", "s2"}

NextRouter ==
    \/ \E ip \in HandlerClients, p \in {"1", "9"}, id \in RouterSessionIds :
            api_chat_start(ip, p, "Test", TRUE, id)
    \/ \E ip \in HandlerClients, r \in RouterResults :
            api_chat_send(ip, "Hi", None, r)
    \/ \E ip \in HandlerClients, q \in RouterRequests, ok \in BOOLEAN,
          id \in RouterSessionIds, r \in RouterResults :
            chat_router(ip, q[1], q[2], q[3], q[4], ok, id, r)

SpecRouter == InitFresh /\ [][NextRouter]_vars

-----------------------------------------------------------------------------
(* The methods of one GeminiChatbot object, called in any order *)

ChatbotStartInputs == {<<"1", "Test">>, <<"2", "Demo">>, <<"9", "Test">>}

NextChatbot ==
    \/ \E kn \in ChatbotStartInputs, ok \in BOOLEAN : start_new_chat(kn[1], kn[2], ok)
    \/ \E r \in SaveSendResults : send_message("Hi", r)
    \/ \E db_ok \in BOOLEAN : save_current_chat(db_ok)

SpecChatbot == InitSave /\ [][NextChatbot]_vars

-----------------------------------------------------------------------------
(* CLAIMS ABOUT THE RATE LIMITER *)

IsRateCall(l) == l.op = "check_rate_limit" /\ l.kind \in StoreKinds

(* The Allowed answers of (kind, ip) whose times lie in the 60 seconds up to t *)
AllowedWithin60(kind, ip, t) ==
    Len(SelectSeq(accepted[kind][ip], LAMBDA ts : t - ts <= 60 /\ ts <= t))

(* C4: for kind 'start' and one client, a call made when fewer than 5 calls   *)
(* were allowed in the last 60 seconds is Allowed (so the first 5 calls of an *)
(* empty window are, and so is a call made after the window of the accepted   *)
(* calls has elapsed), and a call made when 5 were allowed in the last 60     *)
(* seconds (the 6th) is Denied.                                               *)
C4_StartLimitWindow ==
    [][ (IsRateCall(last') /\ last'.kind = "start") =>
            LET n == AllowedWithin60("start", last'.client, now)
            IN  /\ (n < 5) => last'.code = "Allowed"
                /\ (n >= 5) => last'.code = "Denied" ]_vars

(* A start call is allowed again after five accepted calls have left the window *)
C4_Witness ==
    /\ IsRateCall(last) /\ last.kind = "start"
    /\ last.code = "Allowed" /\ last.purged = 5
    /\ Len(rate_limit_store["start"][last.client]) = 1

(* C5: in every trailing 60-second window at most 5 'start' calls and at most *)
(* 20 'send' calls of one client were answered Allowed.                       *)
C5_AtMostLimitPerWindow ==
    \A c \in Clients :
        /\ AllowedWithin60("start", c, now) <= 5
        /\ AllowedWithin60("send", c, now) <= 20

(* A send call is denied with 20 allowed calls in the window, made at different times *)
C5_Witness ==
    /\ IsRateCall(last) /\ last.kind = "send" /\ last.code = "Denied"
    /\ AllowedWithin60("send", last.client, now) = 20
    /\ \E i \in 1..20 : accepted["send"][last.client][i] < now

(* C6: a Denied call leaves the stored timestamps of its (kind, client) as    *)
(* they were; an Allowed call leaves the timestamps of the window followed by *)
(* exactly one new timestamp, the current time; no other bucket changes.      *)
C6_DeniedRecordsNothing ==
    [][ IsRateCall(last') =>
            LET k == last'.kind
                c == last'.client
                old == rate_limit_store[k][c]
                new == rate_limit_store'[k][c]
            IN  /\ last'.code = "Denied" => new = old
                /\ last'.code = "Allowed" =>
                        new = Append(SelectSeq(old, LAMBDA ts : now - ts <= 60), now)
                /\ \A k2 \in StoreKinds, c2 \in Clients :
                        <<k2, c2>> /= <<k, c>> =>
                            rate_limit_store'[k2][c2] = rate_limit_store[k2][c2] ]_vars

(* A send call was denied while the bucket held its 20 timestamps *)
C6_Witness ==
    /\ IsRateCall(last) /\ last.code = "Denied"
    /\ Len(rate_limit_store[last.kind][last.client]) = 20

(* C7: after a check_rate_limit call, Allowed or Denied, every timestamp the  *)
(* store holds for the queried (kind, client) lies in the trailing 60 seconds *)
C7_StoreWithinWindow ==
    IsRateCall(last) =>
        \A i \in 1..Len(rate_limit_store[last.kind][last.client]) :
            now - rate_limit_store[last.kind][last.client][i] <= 60

(* A call purged some timestamps and kept others *)
C7_Witness ==
    /\ IsRateCall(last) /\ last.purged > 0
    /\ Len(rate_limit_store[last.kind][last.client]) > 1

-----------------------------------------------------------------------------
(* CLAIMS ABOUT THE EXCHANGE *)

(* The last step was a send request that reached the provider *)
IsExchange(l) == l.op = "send" /\ l.calls = 1

(* The exchange ended Success (code 1) or Truncated (code 2 with content) *)
EndedAnswered(res) ==
    ~res.raises /\ (res.fr = 1 \/ (res.fr = 2 /\ res.content /= NoContent))

(* user, model, user, model, ... of even length *)
AlternatingPairs(h) ==
    /\ Len(h) % 2 = 0
    /\ \A i \in 1..Len(h) : h[i].role = (IF i % 2 = 1 THEN "user" ELSE "model")

IsPrefix(h, g) == Len(h) <= Len(g) /\ \A i \in 1..Len(h) : g[i] = h[i]

(* C2: a chat starts with no turns; its turn list changes only by a send on  *)
(* it; a send that ends Success or Truncated keeps a list of user, model     *)
(* pairs a list of user, model pairs; a send that ends blocked or failed     *)
(* leaves the list as it was plus one unmatched user turn at its end.        *)
C2_TurnsAlternate ==
    [][ \A r \in DOMAIN chats' :
            IF r \notin DOMAIN chats
            THEN chats'[r] = <<>>
            ELSE chats'[r] /= chats[r] =>
                    /\ IsExchange(last') /\ last'.chat = r
                    /\ IF EndedAnswered(last'.result)
                       THEN AlternatingPairs(chats[r]) => AlternatingPairs(chats'[r])
                       ELSE /\ Len(chats'[r]) = Len(chats[r]) + 1
                            /\ IsPrefix(chats[r], chats'[r])
                            /\ chats'[r][Len(chats'[r])].role = "user" ]_vars

(* Two answered exchanges on one chat: user, model, user, model *)
C2_Witness ==
    /\ IsExchange(last) /\ EndedAnswered(last.result)
    /\ Len(chats[last.chat]) = 4
    /\ AlternatingPairs(chats[last.chat])

(* C3: a send that reaches the provider grows the turn list of its session   *)
(* by exactly a user turn and a model turn when it ends Success or           *)
(* Truncated, and by exactly the user turn when it ends blocked, unknown or  *)
(* with a provider error.                                                    *)
C3_TurnsPerExchange ==
    [][ IsExchange(last') =>
            LET r == last'.chat
                n == Len(chats[r])
            IN  /\ IsPrefix(chats[r], chats'[r])
                /\ chats'[r][n + 1].role = "user"
                /\ IF EndedAnswered(last'.result)
                   THEN Len(chats'[r]) = n + 2 /\ chats'[r][n + 2].role = "model"
                   ELSE Len(chats'[r]) = n + 1 ]_vars

(* A safety block after an answered exchange: user, model, user *)
C3_Witness ==
    /\ IsExchange(last) /\ last.result.fr = 3 /\ ~last.result.raises
    /\ Len(chats[last.chat]) = 3
    /\ chats[last.chat][2].role = "model"
    /\ chats[last.chat][3].role = "user"

C9_EmptyTruncationIsError ==
    (IsExchange(last) /\ ~last.result.raises
        /\ last.result.fr = 2 /\ last.result.content = NoContent) =>
            last.resp.status = "error"

(* The step serves a send request with a message and a session id that is   *)
(* no key of sessions                                                       *)
UnknownSessionSend ==
    /\ last'.op = "send"
    /\ Truthy(last'.message) /\ Truthy(last'.session_id)
    /\ last'.session_id \notin DOMAIN sessions

RegistryUntouched ==
    /\ sessions' = sessions /\ chats' = chats /\ active_chat' = active_chat
    /\ current_persona' = current_persona /\ current_session_name' = current_session_name

(* C10 as stated: a send with a message and an unknown session id returns    *)
(* UNKNOWN_SESSION, calls no provider and leaves the registry unchanged.     *)
C10_UnknownSessionAlways ==
    [][ UnknownSessionSend =>
                /\ last'.resp.code = "UNKNOWN_SESSION"
                /\ last'.calls = 0
                /\ RegistryUntouched ]_vars

(* C10 amended: a send with a message and an unknown session id that the     *)
(* rate limiter allows returns UNKNOWN_SESSION; allowed or not, it calls no  *)
(* provider and leaves the registry unchanged.                               *)
C10_UnknownSession ==
    [][ UnknownSessionSend =>
                /\ rate_allowed("send", last'.client) =>
                        last'.resp.code = "UNKNOWN_SESSION"
                /\ last'.calls = 0
                /\ RegistryUntouched ]_vars

(* UNKNOWN_SESSION was answered while a session with turns is registered *)
C10_Witness ==
    /\ last.op = "send" /\ last.resp.code = "UNKNOWN_SESSION"
    /\ \E id \in DOMAIN sessions : Len(chats[sessions[id].chat]) > 0
    /\ active_chat /= NoChat

-----------------------------------------------------------------------------
(* CLAIMS ABOUT THE ORDER OF THE CHECKS AND THE ERRORS *)

(* The limiter denies a request of this kind and client now *)
DeniedNow(kind, ip) ==
    AllowedWithin60(kind, ip, now) >= (IF kind = "start" THEN 5 ELSE 20)

(* C16 as stated: a start denied by the limiter returns RATE_LIMITED         *)
(* whatever its fields; otherwise an unknown persona key returns             *)
(* INVALID_PERSONA even with an empty name; otherwise an empty name returns  *)
(* the missing-name error; a session is created only when all three pass.    *)
C16_StartCheckOrderAsStated ==
    [][ last'.op = "start" =>
                LET denied == DeniedNow("start", last'.client)
                    k == last'.persona_key
                    n == last'.session_name
                    code == last'.resp.code
                IN  /\ denied => code = "rate_limited"
                    /\ (~denied /\ k \notin PersonaKeys) => code = "INVALID_PERSONA"
                    /\ (~denied /\ k \in PersonaKeys /\ n = "") =>
                            code = "MISSING_SESSION_NAME"
                    /\ sessions' /= sessions =>
                            (~denied /\ k \in PersonaKeys /\ n /= "") ]_vars

(* C16 amended: the checks of a start are, in this order, rate limit, API   *)
(* key, persona key, display name, and the first that fails is reported: a  *)
(* denied request returns RATE_LIMITED whatever its fields; otherwise a     *)
(* missing API key returns MISSING_API_KEY whatever the fields; otherwise   *)
(* an unknown persona key returns INVALID_PERSONA even with an empty name;  *)
(* otherwise an empty name returns MISSING_SESSION_NAME; a session is       *)
(* created only when all four pass.                                         *)
C16_StartCheckOrder ==
    [][ last'.op = "start" =>
                LET denied == DeniedNow("start", last'.client)
                    k == last'.persona_key
                    n == last'.session_name
                    code == last'.resp.code
                IN  /\ denied => code = "rate_limited"
                    /\ (~denied /\ ~API_KEY) => code = "MISSING_API_KEY"
                    /\ (~denied /\ API_KEY /\ k \notin PersonaKeys) =>
                            code = "INVALID_PERSONA"
                    /\ (~denied /\ API_KEY /\ k \in PersonaKeys /\ n = "") =>
                            code = "MISSING_SESSION_NAME"
                    /\ sessions' /= sessions =>
                            (~denied /\ API_KEY /\ k \in PersonaKeys /\ n /= "") ]_vars

(* An unknown persona key with an empty name was answered INVALID_PERSONA *)
C16_Witness ==
    /\ last.op = "start" /\ last.resp.code = "INVALID_PERSONA"
    /\ last.persona_key \notin PersonaKeys /\ last.session_name = ""

(* C17: the checks of a send are, in this order, rate limit, message,       *)
(* session: a denied request returns RATE_LIMITED; otherwise an empty       *)
(* message returns MISSING_MESSAGE even with an unknown session id;         *)
(* otherwise an unknown session id returns UNKNOWN_SESSION; in the three    *)
(* cases the provider is not called and no turn list changes.               *)
C17_SendCheckOrder ==
    [][ last'.op = "send" =>
                LET denied == DeniedNow("send", last'.client)
                    m == last'.message
                    id == last'.session_id
                    unknown == id /= None /\ id \notin DOMAIN sessions
                    code == last'.resp.code
                IN  /\ denied => code = "rate_limited"
                    /\ (~denied /\ m = "") => code = "MISSING_MESSAGE"
                    /\ (~denied /\ m /= "" /\ unknown) => code = "UNKNOWN_SESSION"
                    /\ (denied \/ m = "" \/ unknown) =>
                            last'.calls = 0 /\ chats' = chats ]_vars

(* An empty message for an unknown session id was answered MISSING_MESSAGE  *)
(* while a session with turns is registered                                 *)
C17_Witness ==
    /\ last.op = "send" /\ last.resp.code = "MISSING_MESSAGE"
    /\ last.message = "" /\ last.session_id /= None
    /\ last.session_id \notin DOMAIN sessions
    /\ \E r \in DOMAIN chats : chats[r] /= <<>>

C19_FailedStartChangesNothing ==
    [][ (/\ last'.op = "start"
         /\ \/ DeniedNow("start", last'.client)
            \/ ~API_KEY
            \/ last'.persona_key \notin PersonaKeys
            \/ last'.session_name = ""
            \/ last'.raised) =>
                /\ last'.resp.status = "error"
                /\ last'.resp.code \in {"rate_limited", "MISSING_API_KEY", "INVALID_PERSONA",
                                        "MISSING_SESSION_NAME", "START_EXCEPTION"}
                /\ RegistryUntouched ]_vars

(* START_EXCEPTION was answered while a session with turns is current *)
C19_Witness ==
    /\ last.op = "start" /\ last.resp.code = "START_EXCEPTION"
    /\ active_chat /= NoChat /\ Cardinality(DOMAIN sessions) = 1
    /\ chats[active_chat] /= <<>>

(* C20: when the provider call of a send raises, the send is answered with  *)
(* the error SEND_EXCEPTION; the registry and the implicit current session  *)
(* stay as they were, so the session still resolves for a later send.       *)
C20_ProviderFailureCaught ==
    [][ (last'.op = "send" /\ last'.calls = 1 /\ last'.result.raises) =>
                /\ last'.resp.status = "error"
                /\ last'.resp.code = "SEND_EXCEPTION"
                /\ sessions' = sessions /\ active_chat' = active_chat
                /\ \E sid \in DOMAIN sessions' : sessions'[sid].chat = last'.chat
                /\ IsPrefix(chats[last'.chat], chats'[last'.chat]) ]_vars

(* SEND_EXCEPTION was answered on a session that had an answered exchange *)
C20_Witness ==
    /\ IsExchange(last) /\ last.result.raises
    /\ last.resp.code = "SEND_EXCEPTION"
    /\ Len(chats[last.chat]) = 3
    /\ chats[last.chat][2].role = "model"

(* The identifiers under which a chat is registered *)
SessionIdsOf(chat) == {id \in DOMAIN sessions : sessions[id].chat = chat}

(* C26: the answer of a send that reached the provider and got a result     *)
(* carries the identifier of the session the exchange was applied to,       *)
(* whatever the outcome and whether or not the request named the session.   *)
C26_SendReturnsSessionId ==
    (IsExchange(last) /\ ~last.result.raises) =>
        last.resp.session_id \in SessionIdsOf(last.chat)

-----------------------------------------------------------------------------
(* CLAIMS ABOUT SAVING *)

(* The last step was a save that wrote a conversation *)
IsSave(l) == l.op = "save" /\ l.resp.status = "success"

(* The (role, text) pairs of a list of message rows *)
TurnsOf(rows) ==
    IF rows = <<>> THEN <<>>
    ELSE [i \in 1..Len(rows) |-> [role |-> rows[i].role, text |-> rows[i].content]]

(* What the store holds for a conversation, in the order of insertion *)
TranscriptIn(table, conversation_id) ==
    TurnsOf(rows_where_conversation(table, conversation_id))

StoredTranscript(conversation_id) == TranscriptIn(messages, conversation_id)

C12_RepeatedSaves ==
    [][ IsSave(last') =>
            /\ chats' = chats
            /\ \A i, j \in 1..Len(conversations') :
                    i /= j => conversations'[i].id /= conversations'[j].id
            /\ IsSave(last) =>
                    /\ last'.conversation_id /= last.conversation_id
                    /\ last'.chat = last.chat
                    /\ TranscriptIn(messages', last.conversation_id) = chats[last.chat]
                    /\ TranscriptIn(messages', last'.conversation_id) = chats[last.chat] ]_vars

(* Two conversations hold the same transcript of two turns or more *)
C12_Witness ==
    /\ IsSave(last) /\ last.conversation_id = 2
    /\ Len(conversations) = 2
    /\ Len(StoredTranscript(1)) >= 2
    /\ StoredTranscript(1) = StoredTranscript(2)
    /\ StoredTranscript(2) = chats[last.chat]

(* C13: a save whose session does not exist or has no turns returns an      *)
(* error and writes no conversation and no message.                          *)
C13_NothingToSave ==
    [][ \A id \in SessionIdInputs, db_ok \in BOOLEAN :
            (/\ save_chat(id, db_ok)
             /\ IF active_chat = NoChat THEN TRUE ELSE chats[active_chat] = <<>>) =>
                /\ last'.resp.status = "error"
                /\ conversations' = conversations
                /\ messages' = messages ]_vars

(* C14: a save request for a registered session id writes the turn list,    *)
(* the display name and the persona name of that session.                    *)
C14_SavesRequestedSession ==
    (IsSave(last) /\ last.session_id \in DOMAIN sessions) =>
        LET sess == sessions[last.session_id]
            row == conversations[Len(conversations)]
        IN  /\ row.session_name = sess.session_name
            /\ row.persona = PERSONAS[sess.persona].name
            /\ StoredTranscript(last.conversation_id) = chats[sess.chat]

(* The conversation ids of the saves that have inserted and not committed *)
UncommittedIds == {loc[t].conversation_id : t \in db_writers}

(* C15: the rows of one save become visible together: the committed tables  *)
(* change only when a save commits, and then by its conversation row and    *)
(* all the message rows it inserted; a save that fails changes nothing; a   *)
(* reader never sees a row of a save that has not committed.                *)
C15_SaveAtomic ==
    [][ /\ (conversations' /= conversations \/ messages' /= messages) =>
                \E t \in db_writers :
                    /\ IsSave(last') /\ last'.conversation_id = loc[t].conversation_id
                    /\ pc'[t] = "idle"
                    /\ conversations' = conversations \o loc[t].conversation_rows
                    /\ messages' = messages \o loc[t].message_rows
                    /\ Len(loc[t].message_rows) = loc[t].i - 1
        /\ (last'.op = "save" /\ last'.resp.status = "error") =>
                conversations' = conversations /\ messages' = messages
        /\ (last'.op = "read" /\ last'.conversation_id \in UncommittedIds') =>
                last'.messages = <<>>
        /\ last'.op = "list" =>
                \A i \in 1..Len(last'.conversations) :
                    last'.conversations[i].id \notin UncommittedIds' ]_vars

(* A reader asked for a conversation whose save had inserted two messages   *)
(* and not committed, and got nothing                                       *)
C15_Witness ==
    /\ last.op = "read" /\ last.messages = <<>>
    /\ \E t \in db_writers :
            /\ loc[t].conversation_id = last.conversation_id
            /\ Len(loc[t].message_rows) >= 2

-----------------------------------------------------------------------------
(* CLAIMS ABOUT THE REGISTRY *)

(* The last step was a start that created a session *)
IsStart(l) == l.op = "start" /\ l.resp.status = "success"

(* After a start, send and read-history find the session under the          *)
(* identifier of the answer                                                 *)
StartedSessionFound ==
    LET id == last.resp.session_id
    IN  /\ id \in DOMAIN sessions
        /\ send_resolution("Hi", id) = [code |-> None, chat |-> sessions[id].chat]
        /\ session_history_response(id).status = "success"
        /\ session_history_response(id).session_id = id
        /\ session_history_response(id).history = <<>>
        /\ session_history_response(id).persona = PERSONAS[last.persona_key].name
        /\ session_history_response(id).session_name = last.session_name

(* C21: a successful start adds one session under an identifier that was no *)
(* key before; the session has an empty turn list, the persona key and the  *)
(* name of the request, and a chat no other session has; the identifier     *)
(* returned is the one under which send and read-history find that session. *)
C21_StartStoresSession ==
    /\ [](IsStart(last) => StartedSessionFound)
    /\ [][ IsStart(last') =>
            LET id == last'.resp.session_id
            IN  /\ id \notin DOMAIN sessions
                /\ DOMAIN sessions' = DOMAIN sessions \cup {id}
                /\ sessions'[id].persona = last'.persona_key
                /\ sessions'[id].session_name = last'.session_name
                /\ chats'[sessions'[id].chat] = <<>>
                /\ \A other \in DOMAIN sessions :
                        /\ sessions'[other] = sessions[other]
                        /\ sessions'[other].chat /= sessions'[id].chat ]_vars

(* A second session was started with persona 2 while the first has turns *)
C21_Witness ==
    /\ IsStart(last) /\ last.persona_key = "2"
    /\ Cardinality(DOMAIN sessions) = 2
    /\ \E id \in DOMAIN sessions : chats[sessions[id].chat] /= <<>>
    /\ chats[sessions[last.resp.session_id].chat] = <<>>

(* Every identifier returned by a start resolves to the chat of that start *)
StartedResolvable ==
    \A i \in 1..Len(started) :
        LET id == started[i].session_id
        IN  /\ id \in DOMAIN sessions
            /\ send_resolution("Hi", id) = [code |-> None, chat |-> started[i].chat]
            /\ session_history_response(id).status = "success"
            /\ session_history_response(id).history = chats[started[i].chat]

(* C22: no step removes a session or gives it another chat, and every       *)
(* identifier returned by a start resolves, for send and for read-history,  *)
(* to the chat of that start, whatever starts, sends, saves and reads       *)
(* followed.                                                                *)
C22_SessionsNeverRemoved ==
    /\ []StartedResolvable
    /\ [][ \A id \in DOMAIN sessions :
                id \in DOMAIN sessions' /\ sessions'[id].chat = sessions[id].chat ]_vars

(* The only session was saved after its first exchange and then served a    *)
(* second exchange                                                          *)
C22_Witness ==
    /\ IsExchange(last) /\ Len(started) = 1
    /\ Len(chats[last.chat]) = 4
    /\ Len(conversations) >= 1
    /\ Len(StoredTranscript(1)) = 2

(* C28: the persona key and the name of a registered session never change *)
C28_PersonaAndNameFixed ==
    [][ \A id \in DOMAIN sessions :
            /\ id \in DOMAIN sessions'
            /\ sessions'[id].persona = sessions[id].persona
            /\ sessions'[id].session_name = sessions[id].session_name ]_vars

(* The history of the first of two sessions is read, after a save, with the *)
(* persona and name of its start                                            *)
C28_Witness ==
    /\ last.op = "history" /\ last.resp.status = "success"
    /\ Len(started) = 2 /\ last.session_id = started[1].session_id
    /\ last.resp.session_name /= current_session_name
    /\ last.resp.persona /= PERSONAS[current_persona].name
    /\ Len(conversations) >= 1

(* C29: for every step and every chat, the turn list before the step is a   *)
(* prefix of the turn list after it.                                        *)
C29_TurnsAppendOnly ==
    [][ \A r \in DOMAIN chats :
            r \in DOMAIN chats' /\ IsPrefix(chats[r], chats'[r]) ]_vars

(* A chat that was saved with two turns got the user turn of a blocked send *)
C29_Witness ==
    /\ IsExchange(last) /\ ~EndedAnswered(last.result)
    /\ Len(chats[last.chat]) = 3
    /\ \E cid \in ConversationIds :
            /\ Len(StoredTranscript(cid)) = 2
            /\ IsPrefix(StoredTranscript(cid), chats[last.chat])

(* C30: a send changes the turn list of the chat it is applied to and of no *)
(* other, and changes no session's chat, persona or name; a start changes   *)
(* no turn list of an existing chat.                                        *)
C30_SendTouchesOneSession ==
    [][ /\ last'.op = "send" =>
                /\ sessions' = sessions
                /\ \A c \in DOMAIN chats :
                        (last'.calls = 0 \/ c /= last'.chat) => chats'[c] = chats[c]
        /\ last'.op = "start" =>
                \A c \in DOMAIN chats : chats'[c] = chats[c] ]_vars

(* A send addressed to the first of two sessions, both with turns *)
C30_Witness ==
    /\ IsExchange(last) /\ Len(started) = 2
    /\ last.session_id = started[1].session_id
    /\ last.chat = started[1].chat
    /\ chats[started[2].chat] /= <<>>

-----------------------------------------------------------------------------
(* CLAIMS ABOUT CONCURRENT STARTS *)

(* C1: under any interleaving of start requests, the session identifiers     *)
(* returned by the successful ones are pairwise distinct, and each is a key  *)
(* of sessions that still maps to the chat created by its own request.       *)
C1_DistinctSessionIds ==
    /\ \A i, j \in 1..Len(started) :
            i /= j => started[i].session_id /= started[j].session_id
    /\ \A i \in 1..Len(started) :
            /\ started[i].session_id \in DOMAIN sessions
            /\ sessions[started[i].session_id].chat = started[i].chat

(* Two starts overlapped: the request that made the second chat answered first *)
C1_Witness ==
    /\ Len(started) = 2
    /\ started[1].chat = 2 /\ started[2].chat = 1
    /\ Cardinality(DOMAIN sessions) = 2

(* C24: under concurrent rate checks of one kind and client, no more calls *)
(* are answered Allowed within one window than the limit, and every         *)
(* accepted timestamp of the window is in the stored list.                  *)
C24_RateCheckExclusive ==
    \A k \in StoreKinds, c \in Clients :
        /\ AllowedWithin60(k, c, now) <= rate_limit_of(k)
        /\ AllowedWithin60(k, c, now) <= Len(rate_timestamps(k, c))

(* C23: under concurrent sends on one session, the reply of every answered *)
(* send stands immediately after the user turn of that send.                *)
C23_ConcurrentSendsSerialized ==
    (IsExchange(last) /\ EndedAnswered(last.result)) =>
        last.reply_at = last.user_at + 1

(* C25: every insertion into the session registry happens in a request    *)
(* whose start check answered Allowed for the requesting client, and every  *)
(* provider exchange in a request whose send check answered Allowed, the    *)
(* combined /api/chat router included.                                      *)
C25_RateLimiterGuardsAll ==
    [][/\ sessions' /= sessions =>
            Len(accepted'["start"][last'.client]) = Len(accepted["start"][last'.client]) + 1
       /\ (last'.op \in {"send", "chat"} /\ last'.calls = 1) =>
            \/ Len(accepted'["send"][last'.client]) = Len(accepted["send"][last'.client]) + 1
            \/ /\ last'.op = "chat" /\ last'.created
               /\ Len(accepted'["start"][last'.client])
                    = Len(accepted["start"][last'.client]) + 1]_vars

-----------------------------------------------------------------------------
(* CLAIMS ABOUT THE BUCKETS OF THE RATE LIMITER *)

OtherBuckets(kind, ip) == (StoreKinds \X Clients) \ {<<kind, ip>>}

(* C31: the answer of check_rate_limit(kind, c) is decided by the calls of   *)
(* the same kind and client that were allowed in the window, and the call    *)
(* changes the stored list and the allowed calls of that bucket only.        *)
C31_BucketsIndependent ==
    [][ IsRateCall(last') =>
            LET k == last'.kind
                c == last'.client
            IN  /\ last'.code = IF AllowedWithin60(k, c, now) < rate_limit_of(k)
                                THEN "Allowed" ELSE "Denied"
                /\ \A b \in OtherBuckets(k, c) :
                        /\ rate_limit_store'[b[1]][b[2]] = rate_limit_store[b[1]][b[2]]
                        /\ accepted'[b[1]][b[2]] = accepted[b[1]][b[2]] ]_vars

(* A start call of c2 is allowed while the start window of c1 is full and c1 *)
(* has sent                                                                  *)
C31_Witness ==
    /\ IsRateCall(last) /\ last.kind = "start" /\ last.client = "c2"
    /\ last.code = "Allowed"
    /\ ~rate_allowed("start", "c1")
    /\ Len(rate_limit_store["send"]["c1"]) > 0

-----------------------------------------------------------------------------
(* CLAIMS ABOUT RETRIES AND THE ORDER OF THE RATE CHECK *)

(* The turns a step added to a chat *)
AddedTurns(before, after) == SubSeq(after, Len(before) + 1, Len(after))

UserTurnsIn(turns) == Cardinality({i \in DOMAIN turns : turns[i].role = "user"})

(* C32: a send that passes the rate limit, the message check and the session *)
(* resolution hands its message to the provider exactly once, whatever the   *)
(* outcome, a provider failure included; a send rejected before that hands   *)
(* nothing to the provider.                                                  *)
C32_NothingRetried ==
    [][ last'.op = "send" =>
            LET id == last'.session_id
                passes == /\ ~DeniedNow("send", last'.client)
                          /\ last'.message /= ""
                          /\ IF id = None THEN active_chat /= NoChat
                                          ELSE id \in DOMAIN sessions
            IN  /\ passes =>
                    /\ last'.calls = 1
                    /\ IsPrefix(chats[last'.chat], chats'[last'.chat])
                    /\ UserTurnsIn(AddedTurns(chats[last'.chat], chats'[last'.chat])) = 1
                    /\ \A c \in DOMAIN chats \ {last'.chat} : chats'[c] = chats[c]
                /\ ~passes => (last'.calls = 0 /\ chats' = chats) ]_vars

(* A provider failure on a fresh session left the one user turn of the send *)
C32_Witness ==
    /\ IsExchange(last) /\ last.result.raises
    /\ chats[last.chat] = <<UserTurn(last.message)>>

(* C33: the limiter records a start or send request it allows before the   *)
(* request is validated: the timestamp is stored whatever the answer of the *)
(* request, a denied request stores nothing, and so a valid start that      *)
(* follows 5 allowed starts of the window is answered rate_limited even     *)
(* when all 5 were rejected.                                                *)
C33_SlotConsumedBeforeValidation ==
    [][ last'.op \in {"start", "send"} =>
            LET k == last'.op
                c == last'.client
            IN  /\ ~DeniedNow(k, c) =>
                    /\ rate_limit_store'[k][c] = Append(rate_timestamps(k, c), now)
                    /\ Len(accepted'[k][c]) = Len(accepted[k][c]) + 1
                /\ DeniedNow(k, c) =>
                    /\ last'.resp.code = "rate_limited"
                    /\ rate_limit_store' = rate_limit_store ]_vars

(* A valid start is answered rate_limited after 5 starts of which none      *)
(* created a session                                                        *)
C33_Witness ==
    /\ last.op = "start" /\ last.resp.code = "rate_limited"
    /\ API_KEY /\ last.persona_key \in PersonaKeys /\ last.session_name /= ""
    /\ Len(rate_limit_store["start"][last.client]) = RATE_LIMIT_MAX_START
    /\ sessions = EmptyMap

-----------------------------------------------------------------------------
(* CLAIMS ABOUT THE IMPLICIT CURRENT SESSION *)

CurrentUnset ==
    active_chat = NoChat /\ current_persona = None /\ current_session_name = None

CurrentIsEntry(id) ==
    /\ sessions[id].chat = active_chat
    /\ sessions[id].persona = current_persona
    /\ sessions[id].session_name = current_session_name

(* C34: under concurrent start requests, whenever no request is being       *)
(* served, active_chat, current_persona and current_session_name are all    *)
(* unset or are the chat, persona key and name of one registry entry.       *)
C34_CurrentSessionConsistent ==
    (\A t \in Threads : pc[t] = "idle") =>
        (CurrentUnset \/ \E id \in DOMAIN sessions : CurrentIsEntry(id))

-----------------------------------------------------------------------------
(* CLAIMS ABOUT THE COMBINED ROUTER *)

IsStartAndSend(l) ==
    /\ l.op = "chat" /\ l.branch = "start+send"
    /\ l.persona_key \in PersonaKeys /\ l.constructed

(* C35: a start+send request of /api/chat that passes validation and builds *)
(* its chat registers the new session and makes it the current one before   *)
(* the exchange: whatever the exchange returns the session is in the        *)
(* registry with its persona and name, it is current and its chat holds the *)
(* message; an exchange that ends blocked, unknown or with an exception is  *)
(* answered with an error that carries no session id.                       *)
C35_StartSendRegistersFirst ==
    [][ (IsStartAndSend(last') /\ API_KEY) =>
            /\ \E id \in DOMAIN sessions' \ DOMAIN sessions :
                    /\ sessions'[id] = [chat |-> last'.chat, persona |-> last'.persona_key,
                                        session_name |-> last'.session_name]
                    /\ last'.resp.status = "success" => last'.resp.session_id = id
            /\ \A id \in DOMAIN sessions : sessions'[id] = sessions[id]
            /\ active_chat' = last'.chat
            /\ current_persona' = last'.persona_key
            /\ current_session_name' = last'.session_name
            /\ last'.calls = 1
            /\ chats'[last'.chat][1] = UserTurn(last'.message)
            /\ (last'.result.raises \/ last'.result.fr \notin {1, 2}) =>
                    /\ last'.resp.status = "error"
                    /\ last'.resp.session_id = None
                    /\ last'.resp.code = IF last'.result.raises THEN "START_SEND_EXCEPTION"
                                         ELSE IF last'.result.fr = 3 THEN "SAFETY_BLOCK"
                                         ELSE IF last'.result.fr = 4 THEN "RECITATION_BLOCK"
                                         ELSE "UNKNOWN_FINISH_REASON" ]_vars

(* The exchange of a start+send request raised: the answer carries no       *)
(* session id and the session is registered and current                     *)
C35_Witness ==
    /\ IsStartAndSend(last) /\ last.result.raises
    /\ last.resp.code = "START_SEND_EXCEPTION" /\ last.resp.session_id = None
    /\ active_chat = last.chat
    /\ \E id \in DOMAIN sessions : sessions[id].chat = last.chat

(* C36: an /api/chat request with a valid persona key and a session name   *)
(* and no message starts a session as /api/chat/start does: it registers a  *)
(* new empty session with that persona and name and returns its id.         *)
C36_RouterStartOnly ==
    [][ (/\ last'.op = "chat" /\ last'.branch = "start"
         /\ last'.persona_key \in PersonaKeys /\ API_KEY) =>
            /\ last'.resp.status = "success"
            /\ last'.resp.session_id \in DOMAIN sessions' \ DOMAIN sessions
            /\ sessions'[last'.resp.session_id].persona = last'.persona_key
            /\ sessions'[last'.resp.session_id].session_name = last'.session_name
            /\ chats'[sessions'[last'.resp.session_id].chat] = start_chat_history ]_vars

-----------------------------------------------------------------------------
(* CLAIMS ABOUT THE CLI CHATBOT *)

(* C37: a start_new_chat call that returns False leaves chat,               *)
(* current_persona and session_name of the chatbot as they were.            *)
C37_FailedStartKeepsState ==
    [][ (last'.op = "start_new_chat" /\ ~last'.returned) => chatbot' = chatbot ]_vars

====
